---- MODULE Spec2Model ----
(***************************************************************************)
(* The post editing and revisioning subsystem of mycigars:                 *)
(*   - the content store operations of src/lib/firebase/admin.ts           *)
(*     (posts, slugs and retired slugs, publish state, version log),       *)
(*   - the admin API routes that compose them,                             *)
(*   - the public slug resolver of src/app/posts/[slug]/page.tsx,          *)
(*   - the client-side save coordinator of the PostEditor component        *)
(*     (src/unnamed/part_000).                                             *)
(*                                                                         *)
(* Strings of the program are TLA+ strings, except slugs, which are        *)
(* sequences of one-character strings so that normalizeSlug can be         *)
(* computed the way the code computes it.  Server timestamps are the       *)
(* values of a counter `now` that grows with every timestamp the model     *)
(* stores; createdAt/updatedAt of a post are read by no operation that is  *)
(* modelled here and are left out of the post record.                      *)
(***************************************************************************)
EXTENDS Integers, Sequences, FiniteSets, Bags, TLC

VARIABLES
  \* ---- content store (Firestore) ----
  posts,        \* post id -> post document, or NoPost
  versions,     \* post id -> set of version documents (the subcollection)
  now,          \* last server timestamp handed out
  usedIds,      \* the document ids the store has assigned so far
  previews,     \* post id -> the preview field of the post document
  issued,       \* the preview tokens generateSecureToken has produced so far
  \* ---- save coordinator (PostEditor component, one editing session) ----
  draft,          \* title, slug, excerpt, content, status of the form
  saveState,      \* [status, message]
  lastSavedData,  \* lastSavedDataRef.current
  currentPostId,  \* currentPostIdRef.current, Null while the post is unsaved
  isSaving,       \* isSavingRef.current
  pendingSave,    \* pendingSaveRef.current
  saveId,         \* saveIdRef.current
  debounce,       \* ticks until the debounced autosave fires, or Off
  procs,          \* the performSave calls under way and their follow-up timers
  \* ---- history of the run (read by the properties only) ----
  sinceEdit,      \* ticks since the last edit (counted up to the delay + 1)
  sinceDirtyEdit, \* ticks since the last edit that left the draft dirty
  queuedCalls,    \* requestSave calls answered by setting the pending flag
  revoked,        \* the preview tokens revokePreviewToken has invalidated
  okId,           \* sequence number of the last save that completed as saved
  restored,       \* a version was loaded into the draft and the user has not edited or saved since
  userActed,      \* the user has acted since the last failure the editor showed
  created,      \* post id -> createdAt of every version ever appended
  renames,      \* post id -> slug changes updatePost made since the post was created
  opsDone,      \* operations counted against MaxOps / MaxVOps so far
  ev            \* the operation the last step performed

storeVars == <<posts, versions, now, usedIds>>
previewVars == <<previews, issued, revoked>>
clientVars == <<draft, saveState, lastSavedData, currentPostId, isSaving,
                pendingSave, saveId, debounce, procs>>
histVars  == <<created, renames, opsDone, ev, sinceEdit, sinceDirtyEdit,
               queuedCalls, okId, restored, userActed>>
clientVars_NoProcs == <<draft, saveState, lastSavedData, currentPostId,
                        isSaving, pendingSave, saveId, debounce>>
editorVars == <<clientVars, sinceEdit, sinceDirtyEdit, queuedCalls, okId,
                restored, userActed>>

------------------------------------------------------------------------------
(* Bounds of the model *)

MaxPosts   == 2      \* post documents ever created in one run
MaxOps     == 4      \* API requests that change the store in a run of SpecStore
MaxCreates == 22     \* server timestamps handed out in a run of SpecVersions
MaxVOps    == 2      \* updatePost / restoreVersion calls in a run of SpecVersions

MaxProcs    == 2     \* performSave calls under way at once in SpecEditor
MaxSaveId   == 2     \* saves dispatched in a run of SpecEditor
MaxContents == 2     \* distinct contents the user types in SpecEditor
TickMs      == 500   \* milliseconds of one tick of the model's clock

(* Program constants *)
MAX_VERSIONS   == 20
AUTOSAVE_DELAY == 1000
FOLLOWUP_DELAY == 100

PostIds == 1..MaxPosts
NoPost  == [absent |-> TRUE]
Null    == 0                       \* null timestamp / undefined field
Undef   == "undefined"             \* a field the request body does not carry
UndefSlug == <<"undefined">>       \* the same, for a slug

Min(a, b) == IF a < b THEN a ELSE b

------------------------------------------------------------------------------
(* normalizeSlug, on sequences of characters *)

Letters == {"a", "b", "c"}

toLowerCase(s) ==
  [i \in 1..Len(s) |->
     CASE s[i] = "A" -> "a" [] s[i] = "B" -> "b" [] s[i] = "C" -> "c"
       [] OTHER -> s[i]]

RECURSIVE trimStart(_)
trimStart(s) == IF s # <<>> /\ Head(s) = " " THEN trimStart(Tail(s)) ELSE s

RECURSIVE trimEnd(_)
trimEnd(s) ==
  IF s # <<>> /\ s[Len(s)] = " " THEN trimEnd(SubSeq(s, 1, Len(s) - 1)) ELSE s

trim(s) == trimEnd(trimStart(s))

IsAlnum(c) == c \in Letters

RECURSIVE dropRun(_)
dropRun(s) == IF s # <<>> /\ ~IsAlnum(Head(s)) THEN dropRun(Tail(s)) ELSE s

\* .replace(/[^a-z0-9]+/g, '-')
RECURSIVE replaceRuns(_)
replaceRuns(s) ==
  IF s = <<>> THEN <<>>
  ELSE IF IsAlnum(Head(s)) THEN <<Head(s)>> \o replaceRuns(Tail(s))
  ELSE <<"-">> \o replaceRuns(dropRun(s))

\* .replace(/^-|-$/g, '')
stripHyphens(s) ==
  LET a == IF s # <<>> /\ Head(s) = "-" THEN Tail(s) ELSE s
  IN  IF a # <<>> /\ a[Len(a)] = "-" THEN SubSeq(a, 1, Len(a) - 1) ELSE a

normalizeSlug(slug) == stripHyphens(replaceRuns(trim(toLowerCase(slug))))

------------------------------------------------------------------------------
(* The store as one value, so that a handler is a composition of operations *)

Store == [posts |-> posts, versions |-> versions, now |-> now,
          usedIds |-> usedIds, created |-> created]

Exists(s, id) == id \in PostIds /\ s.posts[id] # NoPost

\* The first document of a non-empty query result.  Firestore returns the
\* documents of an unordered query by document id; ids are assigned at random
\* (CreatePost draws any unused one), so the first one is the smallest id.
FirstDoc(ids) == CHOOSE i \in ids : \A j \in ids : i <= j

\* query.where('slug', '==', normalizedSlug): the matching documents
DocsWithSlug(s, slug) == {i \in PostIds : Exists(s, i) /\ s.posts[i].slug = slug}

Contains(seq, x) == \E i \in 1..Len(seq) : seq[i] = x

------------------------------------------------------------------------------
(* Posts: isSlugAvailable, createPost, updatePost, deletePost, publish state *)

isSlugAvailable(s, slug, excludePostId) ==
  LET docs == DocsWithSlug(s, normalizeSlug(slug))
  IN  \/ docs = {}
      \/ (excludePostId # Null /\ FirstDoc(docs) = excludePostId)

\* createPost(data) writing the new document under the id the store assigns
createPost(s, id, data) ==
  LET normalizedSlug == normalizeSlug(data.slug) IN
  IF ~isSlugAvailable(s, normalizedSlug, Null)
  THEN [store |-> s, success |-> FALSE, id |-> Null]
  ELSE
    LET publishing == data.status = "published"
        t == IF publishing THEN s.now + 1 ELSE s.now
        postData == [title |-> data.title, slug |-> normalizedSlug,
                     oldSlugs |-> <<>>, excerpt |-> data.excerpt,
                     content |-> data.content, status |-> data.status,
                     publishedAt |-> IF publishing THEN t ELSE Null]
    IN  [store |-> [s EXCEPT !.posts[id] = postData, !.usedIds = @ \cup {id},
                             !.now = t],
         success |-> TRUE, id |-> id]

\* The publishedAt updatePost writes (admin.ts 494-500)
updatedPublishedAt(current, data, t) ==
  IF data.status = "published" /\ current.status # "published" THEN t
  ELSE IF data.status = "draft" THEN Null
  ELSE current.publishedAt

\* an oldSlugs that is appended to without the includes test
updatedOldSlugs_AlwaysAppend(currentOldSlugs, currentSlug) ==
  IF currentSlug # <<>> THEN Append(currentOldSlugs, currentSlug)
  ELSE currentOldSlugs

\* The oldSlugs updatePost writes when the slug changes (admin.ts 518-521)
updatedOldSlugs(currentOldSlugs, currentSlug) ==
  IF currentSlug # <<>> /\ ~Contains(currentOldSlugs, currentSlug)
  THEN Append(currentOldSlugs, currentSlug)
  ELSE currentOldSlugs

\* updatePost(id, data); a field the caller does not pass is Undef
updatePost(s, id, data) ==
  IF ~Exists(s, id) THEN [store |-> s, success |-> FALSE, error |-> "Post not found"]
  ELSE
    LET currentData == s.posts[id]
        currentSlug == currentData.slug
        normalizedNewSlug ==
          IF data.slug # UndefSlug /\ data.slug # <<>> THEN normalizeSlug(data.slug)
          ELSE UndefSlug
        isSlugChanging ==
          /\ normalizedNewSlug # UndefSlug
          /\ normalizedNewSlug # <<>>
          /\ normalizedNewSlug # currentSlug
    IN
    IF isSlugChanging /\ ~isSlugAvailable(s, normalizedNewSlug, id)
    THEN [store |-> s, success |-> FALSE,
          error |-> "A post with this slug already exists"]
    ELSE
      LET publishing ==
            data.status = "published" /\ currentData.status # "published"
          t == IF publishing THEN s.now + 1 ELSE s.now
          updated ==
            [currentData EXCEPT
               !.publishedAt = updatedPublishedAt(currentData, data, t),
               !.title   = IF data.title   # Undef THEN data.title   ELSE @,
               !.excerpt = IF data.excerpt # Undef THEN data.excerpt ELSE @,
               !.content = IF data.content # Undef THEN data.content ELSE @,
               !.status  = IF data.status  # Undef THEN data.status  ELSE @,
               !.slug    = IF isSlugChanging THEN normalizedNewSlug ELSE @,
               !.oldSlugs = IF isSlugChanging
                            THEN updatedOldSlugs(@, currentSlug) ELSE @]
      IN  [store |-> [s EXCEPT !.posts[id] = updated, !.now = t],
           success |-> TRUE, error |-> ""]

\* deletePost(id): deletes the post document only
deletePost(s, id) == [store |-> [s EXCEPT !.posts[id] = NoPost], success |-> TRUE]

\* togglePostStatus(id)
togglePostStatus(s, id) ==
  IF ~Exists(s, id) THEN [store |-> s, success |-> FALSE]
  ELSE
    LET data == s.posts[id]
        newStatus == IF data.status = "published" THEN "draft" ELSE "published"
        first == newStatus = "published" /\ data.publishedAt = Null
        t == IF first THEN s.now + 1 ELSE s.now
    IN  [store |-> [s EXCEPT !.posts[id].status = newStatus,
                             !.posts[id].publishedAt = IF first THEN t ELSE @,
                             !.now = t],
         success |-> TRUE]

\* publishPost(id)
publishPost(s, id) ==
  IF ~Exists(s, id) THEN [store |-> s, success |-> FALSE]
  ELSE
    LET first == s.posts[id].publishedAt = Null
        t == IF first THEN s.now + 1 ELSE s.now
    IN  [store |-> [s EXCEPT !.posts[id].status = "published",
                             !.posts[id].publishedAt = IF first THEN t ELSE @,
                             !.now = t],
         success |-> TRUE]

\* unpublishPost(id)
unpublishPost(s, id) ==
  IF ~Exists(s, id) THEN [store |-> s, success |-> FALSE]
  ELSE [store |-> [s EXCEPT !.posts[id].status = "draft"], success |-> TRUE]

------------------------------------------------------------------------------
(* Public read path: getPostBySlug, getPostByOldSlug, resolvePost *)

\* getPostBySlug(slug): the id of the published post with that live slug
getPostBySlug(s, slug) ==
  LET docs == {i \in DocsWithSlug(s, normalizeSlug(slug)) :
                 s.posts[i].status = "published"}
  IN  IF docs = {} THEN Null ELSE FirstDoc(docs)

\* getPostByOldSlug(slug): the id of the published post that retired that slug
getPostByOldSlug(s, oldSlug) ==
  LET docs == {i \in PostIds :
                 /\ Exists(s, i)
                 /\ Contains(s.posts[i].oldSlugs, normalizeSlug(oldSlug))
                 /\ s.posts[i].status = "published"}
  IN  IF docs = {} THEN Null ELSE FirstDoc(docs)

\* resolvePost(slug)
resolvePost(s, slug) ==
  IF getPostBySlug(s, slug) # Null
  THEN [post |-> getPostBySlug(s, slug), shouldRedirect |-> FALSE,
        redirectSlug |-> Null]
  ELSE IF getPostByOldSlug(s, slug) # Null
  THEN [post |-> getPostByOldSlug(s, slug), shouldRedirect |-> TRUE,
        redirectSlug |-> s.posts[getPostByOldSlug(s, slug)].slug]
  ELSE [post |-> Null, shouldRedirect |-> FALSE, redirectSlug |-> Null]

------------------------------------------------------------------------------
(* Version log: createVersion, getVersions, restoreVersion *)

\* versionsRef.orderBy('createdAt', 'desc').get(): the documents from the
\* newest timestamp down (no two versions of the model share a createdAt)
RECURSIVE descendingFrom(_, _)
descendingFrom(vs, t) ==
  IF vs = {} THEN <<>>
  ELSE LET at == {v \in vs : v.createdAt = t}
       IN  IF at = {} THEN descendingFrom(vs, t - 1)
           ELSE <<CHOOSE v \in at : TRUE>> \o descendingFrom(vs \ at, t - 1)

orderByCreatedAtDesc(vs, latest) == descendingFrom(vs, latest)

Range(f) == {f[i] : i \in DOMAIN f}

\* allVersions.docs.slice(MAX_VERSIONS), taken when size > MAX_VERSIONS
versionsToDelete_KeepOldest(allVersions) ==
  IF Len(allVersions) > MAX_VERSIONS
  THEN Range(SubSeq(allVersions, 1, Len(allVersions) - MAX_VERSIONS))
  ELSE {}

\* an eviction that removes only the oldest document
versionsToDelete_OnlyOldest(allVersions) ==
  IF Len(allVersions) > MAX_VERSIONS
  THEN {allVersions[Len(allVersions)]}
  ELSE {}

versionsToDelete(allVersions) ==
  IF Len(allVersions) > MAX_VERSIONS
  THEN Range(SubSeq(allVersions, MAX_VERSIONS + 1, Len(allVersions)))
  ELSE {}

\* The snapshot createVersion writes
versionData(post, t, note) ==
  [id |-> t, title |-> post.title, slug |-> post.slug, excerpt |-> post.excerpt,
   content |-> post.content, status |-> post.status, createdAt |-> t,
   note |-> note]

\* createVersion(postId, note): append, then evict beyond MAX_VERSIONS
createVersion(s, postId, note) ==
  IF ~Exists(s, postId) THEN [store |-> s, success |-> FALSE]
  ELSE
    LET t     == s.now + 1
        added == s.versions[postId] \cup {versionData(s.posts[postId], t, note)}
        gone  == versionsToDelete(orderByCreatedAtDesc(added, t))
    IN  [store |-> [s EXCEPT !.versions[postId] = added \ gone,
                             !.created[postId] = @ \cup {t},
                             !.now = t],
         success |-> TRUE]

\* getVersions(postId)
getVersions(s, postId) == orderByCreatedAtDesc(s.versions[postId], s.now)

\* The fields restoreVersion copies from the version onto the post
restoredPost(post, v) ==
  [post EXCEPT !.title = v.title, !.slug = v.slug, !.excerpt = v.excerpt,
               !.content = v.content, !.status = v.status]

\* restoreVersion(postId, versionId)
restoreVersion(s, postId, versionId) ==
  IF ~Exists(s, postId) THEN [store |-> s, success |-> FALSE]
  ELSE IF \A v \in s.versions[postId] : v.id # versionId
       THEN [store |-> s, success |-> FALSE]
  ELSE
    LET v  == CHOOSE w \in s.versions[postId] : w.id = versionId
        s1 == createVersion(s, postId, "Before restore").store
    IN  [store |-> [s1 EXCEPT !.posts[postId] = restoredPost(s.posts[postId], v)],
         success |-> TRUE]

------------------------------------------------------------------------------
(* Admin API routes: each composes the store operations above *)

Truthy(x) == x # Undef /\ x # ""
TruthySlug(x) == x # UndefSlug /\ x # <<>>

\* PATCH /api/admin/posts/[id]
PATCH(s, id, body) ==
  LET s1 == IF body.createVersion
            THEN createVersion(s, id, "Manual save").store ELSE s
      result == updatePost(s1, id,
                  [title   |-> IF Truthy(body.title) THEN body.title ELSE Undef,
                   slug    |-> IF TruthySlug(body.slug) THEN body.slug ELSE UndefSlug,
                   excerpt |-> body.excerpt,
                   content |-> IF Truthy(body.content) THEN body.content ELSE Undef,
                   status  |-> IF Truthy(body.status) THEN body.status ELSE Undef])
  IN  [store |-> result.store, status |-> IF result.success THEN 200 ELSE 400,
       id |-> Null]

\* POST /api/admin/posts
POSTcreate(s, newId, body) ==
  IF ~Truthy(body.title) \/ ~TruthySlug(body.slug) \/ ~Truthy(body.content)
  THEN [store |-> s, status |-> 400, id |-> Null]
  ELSE
    LET result == createPost(s, newId,
                    [title |-> body.title, slug |-> body.slug,
                     excerpt |-> IF Truthy(body.excerpt) THEN body.excerpt ELSE "",
                     content |-> body.content,
                     status |-> IF Truthy(body.status) THEN body.status ELSE "draft"])
    IN  [store |-> result.store, status |-> IF result.success THEN 201 ELSE 400,
         id |-> result.id]

\* The status change of the route below alone, without its createVersion call
POSTstatus_NoSnapshot(s, id, action) ==
  LET result == IF action = "publish" THEN publishPost(s, id)
                ELSE IF action = "unpublish" THEN unpublishPost(s, id)
                ELSE togglePostStatus(s, id)
  IN  [store |-> result.store, status |-> IF result.success THEN 200 ELSE 400]

\* POST /api/admin/posts/[id]  (action: publish | unpublish | toggle)
POSTstatus(s, id, action) ==
  LET versionNote == IF action = "publish" THEN "Before publish"
                     ELSE IF action = "unpublish" THEN "Before unpublish"
                     ELSE "Before status toggle"
      s1 == createVersion(s, id, versionNote).store
      result == IF action = "publish" THEN publishPost(s1, id)
                ELSE IF action = "unpublish" THEN unpublishPost(s1, id)
                ELSE togglePostStatus(s1, id)
  IN  [store |-> result.store, status |-> IF result.success THEN 200 ELSE 400]

\* DELETE /api/admin/posts/[id]
DELETE(s, id) ==
  [store |-> deletePost(s, id).store, status |-> 200]

\* POST restore (versionId in the body)
POSTrestore(s, id, versionId) ==
  IF versionId = Null THEN [store |-> s, status |-> 400]
  ELSE [store |-> restoreVersion(s, id, versionId).store, status |-> 200]

------------------------------------------------------------------------------
(* Inputs *)

RawSlugs  == {<<"a">>, <<"b">>, <<"C", " ">>}
Statuses  == {"draft", "published"}
Actions   == {"publish", "unpublish", "toggle"}
Notes     == {"Manual save"}

VersionIds(s, id) == {v.id : v \in s.versions[id]}

\* The store's variables take the values of store value s
SetStore(s) ==
  /\ posts' = s.posts
  /\ versions' = s.versions
  /\ now' = s.now
  /\ usedIds' = s.usedIds
  /\ created' = s.created

\* The rename count after a step that leaves post id with store value s:
\* the number of slug changes updatePost has made to the post since it was
\* created (counted up to 3), provided nothing else changed its
\* slug; NoCount once restoreVersion changed the slug
NoCount == 0 - 1

CountedRenames(s, id, byUpdate) ==
  IF ~Exists(s, id) \/ ~Exists(Store, id) THEN renames[id]
  ELSE IF s.posts[id].slug = posts[id].slug THEN renames[id]
  ELSE IF byUpdate /\ renames[id] # NoCount
  THEN Min(renames[id] + 1, 3)
  ELSE NoCount

\* The fields of the editor's form
PostData(title, slug, excerpt, content, status) ==
  [title |-> title, slug |-> slug, excerpt |-> excerpt, content |-> content,
   status |-> status]

\* The form of a new post: initialData is undefined
BlankData == PostData("", <<>>, "", "", "draft")

SaveState(status, message) == [status |-> status, message |-> message]

Off == 0 - 1
NetErr == 0 - 1

\* The step the editor took last, and whether it discarded a stale response
Event(op, stale) == [op |-> op, stale |-> stale, signal |-> "none"]
\* the same, for a step that invoked one of the callbacks the page passes in
Signal(op, stale, callback) == [op |-> op, stale |-> stale, signal |-> callback]


\* No editor is open
NoEditor ==
  /\ draft = BlankData
  /\ saveState = SaveState("idle", "")
  /\ lastSavedData = BlankData
  /\ currentPostId = Null
  /\ isSaving = FALSE
  /\ pendingSave = FALSE
  /\ saveId = 0
  /\ debounce = Off
  /\ procs = EmptyBag
  /\ sinceEdit = 0
  /\ sinceDirtyEdit = 0
  /\ queuedCalls = 0
  /\ okId = 0
  /\ restored = FALSE
  /\ userActed = TRUE

EmptyStore ==
  [posts |-> [i \in PostIds |-> NoPost], versions |-> [i \in PostIds |-> {}],
   now |-> 0, usedIds |-> {}, created |-> [i \in PostIds |-> {}]]

\* A post document without a preview field
NoPreview == [absent |-> TRUE]

NoPreviews ==
  /\ previews = [i \in PostIds |-> NoPreview]
  /\ issued = 0
  /\ revoked = {}

\* The empty database, no editor open
NoPosts ==
  /\ NoEditor
  /\ NoPreviews
  /\ posts = [i \in PostIds |-> NoPost]
  /\ versions = [i \in PostIds |-> {}]
  /\ now = 0
  /\ usedIds = {}
  /\ created = [i \in PostIds |-> {}]
  /\ renames = [i \in PostIds |-> 0]
  /\ opsDone = 0

InitStore ==
  /\ NoPosts
  /\ ev = [op |-> "init", post |-> Null, ok |-> TRUE]

------------------------------------------------------------------------------
(* SpecVersions: the version log of one post under createVersion,          *)
(* restoreVersion and updatePost                                           *)

VCreatePost ==
  /\ usedIds = {}
  /\ \E id \in PostIds :
       LET r == createPost(Store, id,
                  [title |-> "t1", slug |-> <<"a">>, excerpt |-> "",
                   content |-> "c1", status |-> "draft"])
       IN  /\ SetStore(r.store)
           /\ renames' = [renames EXCEPT ![id] = CountedRenames(r.store, id, TRUE)]
           /\ ev' = [op |-> "createPost", post |-> id, ok |-> r.success]
  /\ UNCHANGED <<opsDone, editorVars, previewVars>>

VCreateVersion ==
  /\ now < MaxCreates
  /\ \E id \in PostIds, note \in Notes :
       LET r == createVersion(Store, id, note)
       IN  /\ SetStore(r.store)
           /\ ev' = [op |-> "createVersion", post |-> id, ok |-> r.success]
  /\ UNCHANGED <<renames, opsDone, editorVars, previewVars>>

VRestoreVersion ==
  /\ now < MaxCreates
  /\ opsDone < MaxVOps
  /\ \E id \in PostIds : \E vid \in VersionIds(Store, id) \cup {now + 1} :
       LET r == restoreVersion(Store, id, vid)
       IN  /\ SetStore(r.store)
           /\ renames' = [renames EXCEPT ![id] = CountedRenames(r.store, id, FALSE)]
           /\ ev' = [op |-> "restoreVersion", post |-> id, ok |-> r.success]
  /\ opsDone' = opsDone + 1
  /\ UNCHANGED <<editorVars, previewVars>>

VUpdatePost ==
  /\ opsDone < MaxVOps
  /\ \E id \in PostIds, title \in {"t1", "t2"}, slug \in {UndefSlug, <<"b">>} :
       LET r == updatePost(Store, id,
                  [title |-> title, slug |-> slug, excerpt |-> Undef,
                   content |-> Undef, status |-> Undef])
       IN  /\ SetStore(r.store)
           /\ renames' = [renames EXCEPT ![id] = CountedRenames(r.store, id, TRUE)]
           /\ ev' = [op |-> "updatePost", post |-> id, ok |-> r.success]
  /\ opsDone' = opsDone + 1
  /\ UNCHANGED <<editorVars, previewVars>>

vars == <<storeVars, previewVars, clientVars, histVars>>

NextVersions ==
  \/ VCreatePost
  \/ VCreateVersion
  \/ VRestoreVersion
  \/ VUpdatePost

SpecVersions == InitStore /\ [][NextVersions]_vars

------------------------------------------------------------------------------
(* SpecStore: the admin API routes on a store of up to MaxPosts posts      *)

SCreatePost ==
  \E id \in PostIds \ usedIds, slug \in RawSlugs, status \in Statuses :
    LET r == POSTcreate(Store, id,
               [title |-> "t1", slug |-> slug, excerpt |-> "",
                content |-> "c1", status |-> status])
    IN  /\ opsDone < MaxOps
        /\ opsDone' = IF r.store = Store THEN opsDone ELSE opsDone + 1
        /\ SetStore(r.store)
        /\ renames' = [renames EXCEPT ![id] = CountedRenames(r.store, id, TRUE)]
        /\ UNCHANGED <<ev, editorVars, previewVars>>

SPatch ==
  \E id \in PostIds, slug \in RawSlugs \cup {UndefSlug},
     status \in Statuses \cup {Undef}, cv \in BOOLEAN :
    LET r == PATCH(Store, id,
               [title |-> "t1", slug |-> slug, excerpt |-> "", content |-> "c1",
                status |-> status, createVersion |-> cv])
    IN  /\ opsDone < MaxOps
        /\ opsDone' = IF r.store = Store THEN opsDone ELSE opsDone + 1
        /\ SetStore(r.store)
        /\ renames' = [renames EXCEPT ![id] = CountedRenames(r.store, id, TRUE)]
        /\ UNCHANGED <<ev, editorVars, previewVars>>

SStatus ==
  \E id \in PostIds, action \in Actions :
    LET r == POSTstatus(Store, id, action)
    IN  /\ opsDone < MaxOps
        /\ opsDone' = IF r.store = Store THEN opsDone ELSE opsDone + 1
        /\ SetStore(r.store)
        /\ UNCHANGED <<renames, ev, editorVars, previewVars>>

SDelete ==
  \E id \in PostIds :
    LET r == DELETE(Store, id)
    IN  /\ opsDone < MaxOps
        /\ opsDone' = IF r.store = Store THEN opsDone ELSE opsDone + 1
        /\ SetStore(r.store)
        /\ UNCHANGED <<renames, ev, editorVars, previewVars>>

SRestore ==
  \E id \in PostIds : \E vid \in VersionIds(Store, id) \cup {now + 1} :
    LET r == POSTrestore(Store, id, vid)
    IN  /\ opsDone < MaxOps
        /\ opsDone' = IF r.store = Store THEN opsDone ELSE opsDone + 1
        /\ SetStore(r.store)
        /\ renames' = [renames EXCEPT ![id] = CountedRenames(r.store, id, FALSE)]
        /\ UNCHANGED <<ev, editorVars, previewVars>>

NextStore ==
  \/ SCreatePost
  \/ SPatch
  \/ SStatus
  \/ SDelete
  \/ SRestore

SpecStore == InitStore /\ [][NextStore]_vars

------------------------------------------------------------------------------
(* Preview tokens.  The preview field of a post document is kept in the    *)
(* variable previews; its createdAt is read by no operation modelled here  *)
(* and is left out.  A token is a positive number, Null is the null token. *)

MaxTokens == 3     \* preview tokens generated in a run of SpecPreview

\* generateSecureToken(): 36 random bytes, modelled as a value that differs
\* from the n tokens produced before
generateSecureToken(n) == n + 1

\* generatePreviewToken(postId), with the token generateSecureToken returned
generatePreviewToken_KeepFirst(ps, pv, postId, token) ==
  IF ps[postId] = NoPost
  THEN [previews |-> pv, success |-> FALSE, token |-> Null]
  ELSE IF pv[postId] # NoPreview /\ pv[postId].enabled
  THEN [previews |-> pv, success |-> TRUE, token |-> token]
  ELSE [previews |-> [pv EXCEPT ![postId] = [token |-> token, enabled |-> TRUE]],
        success |-> TRUE, token |-> token]
generatePreviewToken(ps, pv, postId, token) ==
  IF ps[postId] = NoPost
  THEN [previews |-> pv, success |-> FALSE, token |-> Null]
  ELSE [previews |-> [pv EXCEPT ![postId] = [token |-> token, enabled |-> TRUE]],
        success |-> TRUE, token |-> token]

\* revokePreviewToken(postId)
revokePreviewToken_KeepEnabled(ps, pv, postId) ==
  IF ps[postId] = NoPost THEN [previews |-> pv, success |-> FALSE]
  ELSE [previews |-> pv, success |-> TRUE]
revokePreviewToken(ps, pv, postId) ==
  IF ps[postId] = NoPost THEN [previews |-> pv, success |-> FALSE]
  ELSE [previews |-> [pv EXCEPT ![postId] = [token |-> Null, enabled |-> FALSE]],
        success |-> TRUE]

NotFound == [found |-> FALSE]

\* The documents the query of getPostByPreviewToken matches
PreviewMatches_PublishedOnly(ps, pv, token) ==
  {id \in PostIds : /\ ps[id] # NoPost
                    /\ ps[id].status = "published"
                    /\ pv[id] # NoPreview
                    /\ pv[id].token = token
                    /\ pv[id].enabled}
PreviewMatches(ps, pv, token) ==
  {id \in PostIds : /\ ps[id] # NoPost
                    /\ pv[id] # NoPreview
                    /\ pv[id].token = token
                    /\ pv[id].enabled}

\* getPostByPreviewToken(token): what the preview page renders, or notFound()
getPostByPreviewToken(ps, pv, token) ==
  LET snapshot == PreviewMatches(ps, pv, token)
  IN  IF snapshot = {} THEN NotFound
      ELSE LET id == FirstDoc(snapshot)
           IN  [found |-> TRUE, id |-> id, title |-> ps[id].title,
                slug |-> ps[id].slug, content |-> ps[id].content,
                status |-> ps[id].status, previewToken |-> token]

\* The step SpecPreview took last
PEvent(op, post, token, ok) == [op |-> op, post |-> post, token |-> token, ok |-> ok]

InitPreview ==
  /\ NoPosts
  /\ ev = PEvent("init", Null, Null, TRUE)

PFrame == UNCHANGED <<versions, now, usedIds, created, renames, opsDone, editorVars>>

PCreatePost ==
  \E id \in PostIds \ usedIds, slug \in RawSlugs, status \in Statuses :
    LET r == createPost(Store, id,
               [title |-> "t1", slug |-> slug,
                excerpt |-> "", content |-> "c1", status |-> status])
    IN  /\ posts' = r.store.posts
        /\ usedIds' = r.store.usedIds
        /\ now' = r.store.now
        /\ ev' = PEvent("createPost", id, Null, r.success)
        /\ UNCHANGED <<versions, created, renames, opsDone, editorVars, previewVars>>

\* POST /api/admin/posts/[id]/preview
PIssue ==
  \E id \in PostIds :
    LET token == generateSecureToken(issued)
        r == generatePreviewToken(posts, previews, id, token)
    IN  /\ issued < MaxTokens
        /\ issued' = issued + 1
        /\ previews' = r.previews
        /\ ev' = PEvent("issue", id, token, r.success)
        /\ UNCHANGED <<posts, revoked>>
        /\ PFrame

\* DELETE /api/admin/posts/[id]/preview
PRevoke ==
  \E id \in PostIds :
    LET r == revokePreviewToken(posts, previews, id)
        old == IF previews[id] # NoPreview /\ previews[id].token # Null
               THEN {previews[id].token} ELSE {}
    IN  /\ previews' = r.previews
        /\ revoked' = IF r.success THEN revoked \cup old ELSE revoked
        /\ ev' = PEvent("revoke", id, Null, r.success)
        /\ UNCHANGED <<posts, issued>>
        /\ PFrame

PToggle ==
  \E id \in PostIds :
    LET r == togglePostStatus(Store, id)
    IN  /\ posts' = r.store.posts
        /\ now' = r.store.now
        /\ ev' = PEvent("toggle", id, Null, r.success)
        /\ UNCHANGED <<versions, usedIds, created, renames, opsDone, editorVars,
                       previewVars>>

\* deletePost removes the document, its preview field with it
PDelete ==
  \E id \in PostIds :
    /\ posts[id] # NoPost
    /\ posts' = deletePost(Store, id).store.posts
    /\ previews' = [previews EXCEPT ![id] = NoPreview]
    /\ ev' = PEvent("deletePost", id, Null, TRUE)
    /\ UNCHANGED <<issued, revoked>>
    /\ PFrame

\* GET /preview/[token]
PResolve ==
  \E token \in 1..(issued + 1) :
    /\ ev' = PEvent("resolve", Null, token,
                    getPostByPreviewToken(posts, previews, token).found)
    /\ UNCHANGED <<posts, previewVars>>
    /\ PFrame

NextPreview ==
  \/ PCreatePost
  \/ PIssue
  \/ PRevoke
  \/ PToggle
  \/ PDelete
  \/ PResolve

SpecPreview == InitPreview /\ [][NextPreview]_vars

------------------------------------------------------------------------------
(* SpecEditor: one editing session of the PostEditor component against the  *)
(* store.  Time advances in ticks of TickMs; tokens, requests and responses *)
(* take any time.  A performSave call keeps the form data of the render     *)
(* that made it (getCurrentData and isDirty are closures of that render),   *)
(* and reads the refs when it runs.                                         *)

Ticks(ms) == (ms + TickMs - 1) \div TickMs

ContentPool == <<"c1", "c2", "c3", "c4">>
Contents == {ContentPool[i] : i \in 1..Min(MaxContents, Len(ContentPool))}

\* The post the edit page has loaded
InitialData == PostData("t1", <<"a">>, "", "c0", "draft")

\* What the user's edits make of the form
Drafts == {PostData("t1", <<"a">>, "", c, "draft") : c \in Contents}

isPostDataEqual(a, b) ==
  /\ a.title = b.title
  /\ a.slug = b.slug
  /\ a.excerpt = b.excerpt
  /\ a.content = b.content
  /\ a.status = b.status

isDirty(current, lastSaved) == ~isPostDataEqual(current, lastSaved)

\* The stale-response test of performSave
isStale_Never(thisSaveId, latest) == FALSE
isStale(thisSaveId, latest) == thisSaveId # latest

\* What requestSave does: nothing, set the pending flag, or call performSave
requestSave_NoDirtyCheck(dirty, saving) ==
  IF saving THEN "queue" ELSE "perform"
requestSave(dirty, saving) ==
  IF ~dirty THEN "noop" ELSE IF saving THEN "queue" ELSE "perform"

\* useDebouncedCallbackWithCancel: calling the debounced function (re)starts
\* the timer; the callback runs once when it expires
debouncedSave(timer) == Ticks(AUTOSAVE_DELAY)
cancelDebouncedSave(timer) == Off

\* handleChange, run by the effect on every change of a form field: the
\* save state and the debounce timer it leaves
handleChange_NoRestart(dirty, st, timer) ==
  IF dirty
  THEN [saveState |-> SaveState("unsaved", ""),
        debounce |-> IF timer = Off THEN debouncedSave(timer) ELSE timer]
  ELSE [saveState |-> st, debounce |-> timer]
handleChange(dirty, st, timer) ==
  IF dirty
  THEN [saveState |-> SaveState("unsaved", ""), debounce |-> debouncedSave(timer)]
  ELSE [saveState |-> st, debounce |-> timer]

\* A call of performSave begins: it awaits getToken
Calling(data, cv) ==
  [phase |-> "token", data |-> data, cv |-> cv, id |-> 0, post |-> Null,
   resp |-> 0, newId |-> Null, due |-> Off, queued |-> 0]

Spawn(ps, data, cv) == ps (+) SetToBag({Calling(data, cv)})
Remove(ps, p) == ps (-) SetToBag({p})
Replace(ps, p, q) == Remove(ps, p) (+) SetToBag({q})

\* The saves dispatched and not yet completed
InFlight(ps) == {p \in BagToSet(ps) : p.phase \in {"request", "response"}}

\* requestSave(createVersion) called with the current render's draft
DoRequestSave(cv, op) ==
  LET d == requestSave(isDirty(draft, lastSavedData), isSaving)
  IN  /\ d = "perform" => BagCardinality(procs) < MaxProcs
      /\ pendingSave' = IF d = "queue" THEN TRUE ELSE pendingSave
      /\ queuedCalls' = IF d = "queue" THEN Min(queuedCalls + 1, 2) ELSE queuedCalls
      /\ procs' = IF d = "perform" THEN Spawn(procs, draft, cv) ELSE procs
      /\ ev' = Event(op, FALSE)

\* The editor is mounted on store s with props postId and initialData
Mounted(s, postId, initialData) ==
  /\ posts = s.posts
  /\ versions = s.versions
  /\ now = s.now
  /\ usedIds = s.usedIds
  /\ created = s.created
  /\ currentPostId = postId
  /\ draft = initialData
  /\ lastSavedData = initialData
  /\ saveState = SaveState("idle", "")
  /\ isSaving = FALSE
  /\ pendingSave = FALSE
  /\ saveId = 0
  /\ debounce = Off
  /\ procs = EmptyBag
  /\ sinceEdit = Ticks(AUTOSAVE_DELAY) + 1
  /\ sinceDirtyEdit = Ticks(AUTOSAVE_DELAY) + 1
  /\ queuedCalls = 0
  /\ okId = 0
  /\ restored = FALSE
  /\ userActed = TRUE
  /\ renames = [i \in PostIds |-> 0]
  /\ opsDone = 0
  /\ ev = Event("init", FALSE)
  /\ NoPreviews

\* The edit page of an existing post
InitEditor == Mounted(createPost(EmptyStore, 1, InitialData).store, 1, InitialData)

\* The new-post page
InitNewPost == Mounted(EmptyStore, Null, BlankData)

\* The user changes the form; the field-change effect runs handleChange
Edit ==
  \E d \in Drafts :
    LET h == handleChange(isDirty(d, lastSavedData), saveState, debounce)
    IN  /\ d # draft
        /\ draft' = d
        /\ saveState' = h.saveState
        /\ debounce' = h.debounce
        /\ sinceEdit' = 0
        /\ sinceDirtyEdit' = IF isDirty(d, lastSavedData) THEN 0 ELSE sinceDirtyEdit
        /\ ev' = Event("edit", FALSE)
        /\ restored' = FALSE
        /\ userActed' = TRUE
        /\ UNCHANGED <<storeVars, lastSavedData, currentPostId, isSaving,
                       pendingSave, saveId, procs, queuedCalls, okId,
                       created, renames, opsDone, previewVars>>

\* The debounce timer expires: autoSave
AutoSave ==
  /\ debounce = 0
  /\ debounce' = Off
  /\ DoRequestSave(FALSE, "autoSave")
  /\ UNCHANGED <<storeVars, draft, saveState, lastSavedData, currentPostId,
                 isSaving, saveId, sinceEdit, sinceDirtyEdit, okId,
                 restored, userActed,
                 created, renames, opsDone, previewVars>>

\* Save button or Ctrl/Cmd+S
handleManualSave ==
  /\ debounce' = cancelDebouncedSave(debounce)
  /\ DoRequestSave(currentPostId # Null, "manualSave")
  /\ restored' = FALSE
  /\ userActed' = TRUE
  /\ UNCHANGED <<storeVars, draft, saveState, lastSavedData, currentPostId,
                 isSaving, saveId, sinceEdit, sinceDirtyEdit, okId,
                 created, renames, opsDone, previewVars>>

\* The user picks a version in the history modal
handleVersionRestore ==
  /\ currentPostId # Null
  /\ \E v \in versions[currentPostId] :
       LET d == PostData(v.title, v.slug, v.excerpt, v.content, v.status)
           changed == d # draft
           h == IF changed
                THEN handleChange(isDirty(d, lastSavedData),
                                  SaveState("unsaved", ""),
                                  cancelDebouncedSave(debounce))
                ELSE [saveState |-> SaveState("unsaved", ""),
                      debounce |-> cancelDebouncedSave(debounce)]
       IN  /\ draft' = d
           /\ saveState' = h.saveState
           /\ debounce' = h.debounce
           /\ sinceEdit' = IF changed THEN 0 ELSE sinceEdit
           /\ sinceDirtyEdit' = IF changed /\ isDirty(d, lastSavedData)
                                THEN 0 ELSE sinceDirtyEdit
  /\ ev' = Event("versionRestore", FALSE)
  /\ restored' = TRUE
  /\ userActed' = TRUE
  /\ UNCHANGED <<storeVars, lastSavedData, currentPostId, isSaving, pendingSave,
                 saveId, procs, queuedCalls, okId, created, renames, opsDone, previewVars>>


\* getToken resolves for a performSave call: without a token the call ends
\* in an error; with one it takes the next sequence number, raises the
\* saving flag and sends the request to the post currentPostIdRef names now
TokenResolved ==
  \E p \in BagToSet(procs), token \in BOOLEAN :
    LET q == [p EXCEPT !.phase = "request", !.id = saveId + 1,
                       !.post = currentPostId]
    IN  /\ p.phase = "token"
        /\ IF ~token
           THEN /\ saveState' = SaveState("error", "Not authenticated")
                /\ procs' = Remove(procs, p)
                /\ ev' = Signal("noToken", FALSE, "onAuthError")
                /\ UNCHANGED <<saveId, isSaving>>
           ELSE /\ saveId < MaxSaveId
                /\ saveId' = saveId + 1
                /\ isSaving' = TRUE
                /\ saveState' = SaveState("saving", "")
                /\ procs' = Replace(procs, p, q)
                /\ ev' = Event("dispatch", FALSE)
        /\ UNCHANGED <<storeVars, draft, lastSavedData, currentPostId,
                       pendingSave, debounce, sinceEdit, sinceDirtyEdit,
                       queuedCalls, okId, restored, userActed, created, renames, opsDone, previewVars>>

\* The API handles a save request: verifyAuth, then PATCH or POST
ServerHandle ==
  \E p \in BagToSet(procs), authorized \in BOOLEAN :
    \E newId \in IF p.post = Null THEN PostIds \ usedIds ELSE {Null} :
      LET r == IF ~authorized THEN [store |-> Store, status |-> 401, id |-> Null]
               ELSE IF p.post # Null
               THEN PATCH(Store, p.post,
                          [title |-> p.data.title, slug |-> p.data.slug,
                           excerpt |-> p.data.excerpt, content |-> p.data.content,
                           status |-> p.data.status, createVersion |-> p.cv])
               ELSE POSTcreate(Store, newId, p.data)
      IN  /\ p.phase = "request"
          /\ SetStore(r.store)
          /\ procs' = Replace(procs, p, [p EXCEPT !.phase = "response",
                                                   !.resp = r.status,
                                                   !.newId = r.id])
          /\ ev' = Event("serve", FALSE)
          /\ UNCHANGED <<clientVars_NoProcs, sinceEdit, sinceDirtyEdit,
                         queuedCalls, okId, restored, userActed, renames, opsDone, previewVars>>

\* fetch rejects: the request never arrived, or its response was lost
NetworkError ==
  \E p \in InFlight(procs) :
    /\ p.resp # NetErr
    /\ procs' = Replace(procs, p, [p EXCEPT !.phase = "response",
                                             !.resp = NetErr, !.newId = Null])
    /\ ev' = Event("networkError", FALSE)
    /\ UNCHANGED <<storeVars, clientVars_NoProcs, sinceEdit, sinceDirtyEdit,
                   queuedCalls, okId, restored, userActed, created, renames, opsDone, previewVars>>

ResponseOk(resp) == resp \in 200..299

\* The rest of performSave once fetch has settled: lines after the await,
\* the catch block and the finally block
Complete ==
  \E p \in BagToSet(procs) :
    LET thrown == p.resp = NetErr
        ok == ~thrown /\ ResponseOk(p.resp)
        stale == isStale(p.id, saveId)
    IN  /\ p.phase = "response"
        /\ currentPostId' = IF p.post = Null /\ ok THEN p.newId ELSE currentPostId
        /\ saveState' =
             IF stale THEN saveState
             ELSE IF thrown
             THEN SaveState("error", "Network error. Check your connection.")
             ELSE IF p.resp \in {401, 403}
             THEN SaveState("error", "Authentication expired")
             ELSE IF ~ok THEN SaveState("error", "Failed to save")
             ELSE SaveState("saved", "")
        /\ lastSavedData' = IF ~stale /\ ok THEN p.data ELSE lastSavedData
        /\ okId' = IF ~stale /\ ok THEN p.id ELSE okId
        /\ isSaving' = FALSE
        /\ pendingSave' = FALSE
        /\ queuedCalls' = 0
        /\ procs' = IF pendingSave
                    THEN Replace(procs, p,
                                 [p EXCEPT !.phase = "timer",
                                           !.due = Ticks(FOLLOWUP_DELAY),
                                           !.queued = queuedCalls])
                    ELSE Remove(procs, p)
        /\ userActed' = IF ~stale /\ ~ok /\ p.resp \notin {401, 403}
                        THEN FALSE ELSE userActed
        /\ ev' = Signal("complete", stale,
                        IF stale \/ thrown THEN "none"
                        ELSE IF p.resp \in {401, 403} THEN "onAuthError"
                        ELSE IF ok THEN "onSaveSuccess" ELSE "none")
        /\ UNCHANGED <<storeVars, draft, saveId, debounce, sinceEdit,
                       sinceDirtyEdit, restored, created, renames, opsDone, previewVars>>

\* The timer the finally block set expires: the callback tests isDirty of
\* the render that made the completed call, and calls that render's
\* performSave
FollowUp ==
  \E p \in BagToSet(procs) :
    LET again == isDirty(p.data, lastSavedData)
    IN  /\ p.phase = "timer"
        /\ p.due = 0
        /\ procs' = IF again THEN Replace(procs, p, Calling(p.data, FALSE))
                    ELSE Remove(procs, p)
        /\ ev' = Event("followUp", FALSE)
        /\ UNCHANGED <<storeVars, clientVars_NoProcs, sinceEdit, sinceDirtyEdit,
                       queuedCalls, okId, restored, userActed, created, renames, opsDone, previewVars>>

\* A pending follow-up timer after one tick
Later(p) == IF p.phase = "timer" THEN [p EXCEPT !.due = @ - 1] ELSE p

Saturated(n) == Min(n + 1, Ticks(AUTOSAVE_DELAY) + 1)

\* TickMs pass; a timer that is due runs before more time passes
Tick ==
  /\ debounce # 0
  /\ \A p \in BagToSet(procs) : p.phase = "timer" => p.due > 0
  /\ debounce' = IF debounce > 0 THEN debounce - 1 ELSE debounce
  /\ procs' = [q \in {Later(p) : p \in BagToSet(procs)} |->
                 procs[CHOOSE p \in BagToSet(procs) : Later(p) = q]]
  /\ sinceEdit' = Saturated(sinceEdit)
  /\ sinceDirtyEdit' = Saturated(sinceDirtyEdit)
  /\ ev' = Event("tick", FALSE)
  /\ UNCHANGED <<storeVars, draft, saveState, lastSavedData, currentPostId,
                 isSaving, pendingSave, saveId, queuedCalls, okId,
                 restored, userActed, created, renames, opsDone, previewVars>>

NextEditor ==
  \/ Edit
  \/ AutoSave
  \/ handleManualSave
  \/ handleVersionRestore
  \/ TokenResolved
  \/ ServerHandle
  \/ NetworkError
  \/ Complete
  \/ FollowUp
  \/ Tick

SpecEditor == InitEditor /\ [][NextEditor]_vars

SpecNewPost == InitNewPost /\ [][NextEditor]_vars

------------------------------------------------------------------------------
(* Properties of the save coordinator *)

\* performSave call p ran to its end in this step
Completes(p) ==
  /\ ev'.op = "complete"
  /\ p.phase = "response"
  /\ CopiesIn(p, procs') < CopiesIn(p, procs)

\* C1: the completion of a save that is no longer the latest one dispatched
\* (a later save has taken a higher sequence number, whether or not that
\* later save has completed) changes neither the save state nor the
\* last-saved snapshot.
C1_StaleCompletionIgnored ==
  [][\A p \in BagToSet(procs) :
       (Completes(p) /\ p.id < saveId)
         => /\ saveState' = saveState
            /\ lastSavedData' = lastSavedData]_vars

\* Save A came back after the later save B had completed as saved
C1_Witness ==
  /\ ev.op = "complete"
  /\ ev.stale
  /\ okId = saveId
  /\ InFlight(procs) = {}
  /\ saveState.status = "saved"

\* C2: when the response of the first of two successive saves arrives after
\* the response of the second, and the second was accepted, the content
\* the store holds at the end is the content of the second save.
C2_LastSaveWins ==
  (/\ ev.op = "complete"
   /\ ev.stale
   /\ okId = saveId
   /\ InFlight(procs) = {}
   /\ currentPostId # Null)
  => posts[currentPostId].content = lastSavedData.content

\* C3: at most one save request is in flight (dispatched and not yet
\* completed) in every reachable state.
C3_AtMostOneInFlight == Cardinality(InFlight(procs)) <= 1

\* C4: when requestSave was called two or more times while a save was in
\* flight, the completion clears the pending flag and, if the draft is still
\* dirty when the follow-up timer runs, exactly one follow-up save is
\* started, without version creation.
C4_OneFollowUp ==
  [][/\ ev'.op = "complete" => ~pendingSave'
     /\ \A p \in BagToSet(procs) :
          (/\ ev'.op = "followUp"
           /\ p.phase = "timer"
           /\ CopiesIn(p, procs') < CopiesIn(p, procs)
           /\ p.queued >= 2
           /\ isDirty(draft, lastSavedData))
          => \E d \in Drafts \cup {InitialData, BlankData} :
               procs' = Replace(procs, p, Calling(d, FALSE))]_vars

\* C5: an edit starts no save itself; an edit that leaves the draft dirty
\* restarts the debounce timer; the autosave fires one debounce delay after
\* the last edit that left the draft dirty, and once: the timer is off
\* after it has fired.
C5_AutosaveAfterLastDirtyEdit ==
  [][/\ ev'.op \in {"edit", "versionRestore"} =>
          /\ procs' = procs
          /\ (draft' # draft /\ isDirty(draft', lastSavedData))
               => debounce' = Ticks(AUTOSAVE_DELAY)
     /\ ev'.op = "autoSave" =>
          /\ sinceDirtyEdit = Ticks(AUTOSAVE_DELAY)
          /\ debounce' = Off
     /\ debounce # Off => debounce + sinceDirtyEdit = Ticks(AUTOSAVE_DELAY)]_vars

\* The autosave fired after an edit had restarted the timer
C5_Witness ==
  /\ ev.op = "autoSave"
  /\ sinceEdit = Ticks(AUTOSAVE_DELAY)
  /\ isDirty(draft, lastSavedData)
  /\ okId > 0
  /\ \E p \in BagToSet(procs) : p.phase = "token" /\ p.data = draft /\ ~p.cv

\* C5 as the specification words it: the autosave fires one debounce delay
\* after the last edit.
C5_AutosaveAfterLastEdit ==
  [][ev'.op = "autoSave" => sinceEdit = Ticks(AUTOSAVE_DELAY)]_vars

\* C6: a manual save of an existing post whose draft equals the last-saved
\* snapshot sends no request, creates no version, and leaves the save state,
\* the sequence number and the pending flag unchanged.
C6_CleanManualSaveIsNoOp ==
  [][(/\ ev'.op = "manualSave"
      /\ currentPostId # Null
      /\ ~isDirty(draft, lastSavedData))
     => UNCHANGED <<procs, posts, versions, saveState, saveId, pendingSave>>]_vars

\* A manual save right after a save that succeeded
C6_Witness ==
  /\ ev.op = "manualSave"
  /\ currentPostId # Null
  /\ ~isDirty(draft, lastSavedData)
  /\ saveState.status = "saved"
  /\ procs = EmptyBag

------------------------------------------------------------------------------
(* Properties of the version log *)

\* The createdAt of the k newest of a set of timestamps
NewestStamps(ts, k) == {t \in ts : Cardinality({u \in ts : u > t}) < k}

\* C7: after n successful createVersion calls on a post its log holds
\* exactly min(n, 20) versions, the min(n, 20) newest by creation time.
C7_RetentionCap ==
  \A id \in PostIds :
    LET n == Cardinality(created[id])
    IN  /\ Cardinality(versions[id]) = Min(n, MAX_VERSIONS)
        /\ {v.createdAt : v \in versions[id]} = NewestStamps(created[id], MAX_VERSIONS)

C7_Witness ==
  \E id \in PostIds :
    /\ Cardinality(created[id]) = MAX_VERSIONS + 1
    /\ Cardinality(versions[id]) = MAX_VERSIONS
    /\ ev.op = "createVersion"

\* C8: restoreVersion never deletes a version that existed before the call
\* and adds exactly one new version, tagged "Before restore".
C8_RestoreKeepsHistory ==
  [][(ev'.op = "restoreVersion" /\ ev'.ok) =>
       LET id == ev'.post
       IN  /\ versions[id] \subseteq versions'[id]
           /\ Cardinality(versions'[id] \ versions[id]) = 1
           /\ \A v \in versions'[id] \ versions[id] : v.note = "Before restore"]_vars

------------------------------------------------------------------------------
(* Properties of publish state and slugs *)

\* C9: once a post's publishedAt is set, no later operation on the post
\* (publish, unpublish, toggle, an editor save, restoreVersion) changes or
\* clears it.
C9_PublishedAtStable ==
  [][\A id \in PostIds :
       (posts[id] # NoPost /\ posts'[id] # NoPost /\ posts[id].publishedAt # Null)
         => posts'[id].publishedAt = posts[id].publishedAt]_vars

Direct(id) == [post |-> id, shouldRedirect |-> FALSE, redirectSlug |-> Null]
Redirect(id, slug) == [post |-> id, shouldRedirect |-> TRUE, redirectSlug |-> slug]

\* C10: after a published post was renamed twice (A to B, then B to C),
\* resolving A and resolving B each redirect to C, resolving C yields the post
\* directly, and neither A nor B is the post's live slug.
C10_RenamedTwiceRedirects ==
  \A id \in PostIds :
    (/\ posts[id] # NoPost
     /\ posts[id].status = "published"
     /\ renames[id] = 2
     /\ Len(posts[id].oldSlugs) = 2
     /\ ~Contains(posts[id].oldSlugs, posts[id].slug))
    => LET A == posts[id].oldSlugs[1]
           B == posts[id].oldSlugs[2]
           C == posts[id].slug
       IN  /\ resolvePost(Store, A) = Redirect(id, C)
           /\ resolvePost(Store, B) = Redirect(id, C)
           /\ resolvePost(Store, C) = Direct(id)
           /\ posts[id].slug \notin {A, B}

\* C11: in every reachable state of the store no two posts have the same
\* live slug.
C11_LiveSlugsUnique ==
  \A i, j \in PostIds :
    (i # j /\ posts[i] # NoPost /\ posts[j] # NoPost)
      => posts[i].slug # posts[j].slug

\* Post j gets live slug in this step through createPost or updatePost: the
\* post is new or its slug changes, and the step is not a restore (which
\* appends a "Before restore" version)
TakesSlug(j) ==
  /\ posts'[j] # NoPost
  /\ posts[j] = NoPost \/ posts'[j].slug # posts[j].slug
  /\ \A v \in versions'[j] \ versions[j] : v.note # "Before restore"

\* C12: a slug in one post's retired-slug set does not become the live slug
\* of a different post by createPost or updatePost.
C12_RetiredSlugNotReassigned ==
  [][\A i, j \in PostIds :
       (i # j /\ posts[i] # NoPost /\ TakesSlug(j))
         => ~Contains(posts[i].oldSlugs, posts'[j].slug)]_vars

------------------------------------------------------------------------------
(* Properties of preview tokens *)

Resolve(token) == getPostByPreviewToken(posts, previews, token)

\* C13: a token that was revoked resolves, in every later state, to the
\* result a token that was never issued resolves to: not-found.
C13_RevokedLikeNeverIssued ==
  \A token \in revoked :
    /\ Resolve(token) = NotFound
    /\ Resolve(token) = Resolve(generateSecureToken(issued))

\* A revoked token was presented after its post got a new token
C13_Witness ==
  /\ ev.op = "resolve"
  /\ ev.token \in revoked
  /\ ~ev.ok
  /\ \E id \in PostIds : previews[id] # NoPreview /\ previews[id].enabled

\* The tokens produced so far that resolve to post id
ResolvingTo(ps, pv, n, id) ==
  {token \in 1..n : LET r == getPostByPreviewToken(ps, pv, token)
                    IN  r.found /\ r.id = id}

\* C14: at most one preview token per post resolves at any time; after a
\* token is issued for a post, only that newest token resolves to the post.
C14_OneTokenPerPost ==
  [][/\ \A id \in PostIds :
          Cardinality(ResolvingTo(posts', previews', issued', id)) <= 1
     /\ (ev'.op = "issue" /\ ev'.ok)
          => ResolvingTo(posts', previews', issued', ev'.post) = {ev'.token}]_vars

\* A second token was issued for a post whose first token resolved
C14_Witness ==
  /\ ev.op = "issue"
  /\ ev.ok
  /\ ev.token >= 2
  /\ \E token \in 1..(ev.token - 1) : token \notin revoked /\ ~Resolve(token).found
  /\ Resolve(ev.token).found

\* C15: resolve(token) returns post P exactly when P's current preview
\* token is the given token and P's preview is enabled, whatever P's publish
\* status; otherwise it returns not-found.
C15_ResolveExactly ==
  \A token \in 1..(issued + 1) :
    /\ \A id \in PostIds :
         (Resolve(token).found /\ Resolve(token).id = id)
           <=> (/\ posts[id] # NoPost
                /\ previews[id] # NoPreview
                /\ previews[id].token = token
                /\ previews[id].enabled)
    /\ Resolve(token).found =>
         /\ Resolve(token).status = posts[Resolve(token).id].status
         /\ Resolve(token).content = posts[Resolve(token).id].content

\* A draft was returned through its token
C15_Witness ==
  /\ ev.op = "resolve"
  /\ ev.ok
  /\ Resolve(ev.token).found
  /\ Resolve(ev.token).status = "draft"

------------------------------------------------------------------------------
(* The admin API: every route with the credential its request carries *)

MaxAdminOps == 4     \* admin requests in one run

\* The Authorization header of a request: the admin's ID token, the ID token
\* of another account, or no Bearer header
Credentials == {"admin", "other", "none"}

\* verifyAdminToken: the token verifies and its email is ADMIN_EMAIL
verifyAdminToken(cred) == cred = "admin"

\* verifyAuth(request)
verifyAuth(cred) == cred # "none" /\ verifyAdminToken(cred)

\* POST /api/admin/posts
postsPOST(s, cred, newId, body) ==
  IF ~verifyAuth(cred) THEN [store |-> s, status |-> 401, id |-> Null]
  ELSE POSTcreate(s, newId, body)

\* GET /api/admin/posts/[id]
postGET(s, cred, id) ==
  IF ~verifyAuth(cred) THEN [store |-> s, status |-> 401]
  ELSE [store |-> s, status |-> IF Exists(s, id) THEN 200 ELSE 404]

\* PATCH /api/admin/posts/[id]
postPATCH(s, cred, id, body) ==
  IF ~verifyAuth(cred) THEN [store |-> s, status |-> 401]
  ELSE LET r == PATCH(s, id, body) IN [store |-> r.store, status |-> r.status]

\* DELETE /api/admin/posts/[id]
postDELETE(s, cred, id) ==
  IF ~verifyAuth(cred) THEN [store |-> s, status |-> 401] ELSE DELETE(s, id)

\* POST /api/admin/posts/[id]
postPOST(s, cred, id, action) ==
  IF ~verifyAuth(cred) THEN [store |-> s, status |-> 401]
  ELSE POSTstatus(s, id, action)

\* GET /api/admin/posts/[id]/versions: the handler does not read the
\* request's headers
versionsGET(s, id) == [status |-> 200, versions |-> getVersions(s, id)]

\* getPostPreview(postId)
getPostPreview(ps, pv, postId) ==
  IF ps[postId] = NoPost THEN NoPreview
  ELSE IF pv[postId] = NoPreview THEN [token |-> Null, enabled |-> FALSE]
  ELSE pv[postId]

\* POST /api/admin/posts/[id]/preview: the handler does not read the
\* request's headers
previewPOST(ps, pv, id, token) ==
  LET r == generatePreviewToken(ps, pv, id, token)
  IN  [previews |-> r.previews, status |-> IF r.success THEN 200 ELSE 400]

\* DELETE /api/admin/posts/[id]/preview
previewDELETE(ps, pv, id) ==
  LET r == revokePreviewToken(ps, pv, id)
  IN  [previews |-> r.previews, status |-> IF r.success THEN 200 ELSE 400]

\* GET /api/admin/posts/[id]/preview
previewGET(ps, pv, id) ==
  [status |-> IF getPostPreview(ps, pv, id) = NoPreview THEN 404 ELSE 200,
   preview |-> getPostPreview(ps, pv, id)]

AEvent(op, cred, status) == [op |-> op, cred |-> cred, status |-> status]

InitAdmin == NoPosts /\ ev = AEvent("init", "none", 0)

AFrame == UNCHANGED <<renames, editorVars>>

\* One more request is handled
Counted ==
  /\ opsDone < MaxAdminOps
  /\ opsDone' = opsDone + 1

\* A request of the posts routes was answered with store s
Answered(s) == Counted /\ SetStore(s)

ACreate ==
  \E cred \in Credentials, id \in PostIds \ usedIds, slug \in RawSlugs :
    LET r == postsPOST(Store, cred, id,
               [title |-> "t1", slug |-> slug, excerpt |-> "",
                content |-> "c1", status |-> "draft"])
    IN  /\ Answered(r.store)
        /\ ev' = AEvent("create", cred, r.status)
        /\ UNCHANGED previewVars
        /\ AFrame

AGet ==
  \E cred \in Credentials, id \in PostIds :
    /\ ev' = AEvent("read", cred, postGET(Store, cred, id).status)
    /\ Counted
    /\ UNCHANGED <<storeVars, created, previewVars>>
    /\ AFrame

APatch ==
  \E cred \in Credentials, id \in PostIds, slug \in RawSlugs, cv \in BOOLEAN :
    LET r == postPATCH(Store, cred, id,
               [title |-> "t1", slug |-> slug, excerpt |-> "", content |-> "c1",
                status |-> Undef, createVersion |-> cv])
    IN  /\ Answered(r.store)
        /\ ev' = AEvent("update", cred, r.status)
        /\ UNCHANGED previewVars
        /\ AFrame

\* the preview record is a field of the post document and goes with it
ADelete ==
  \E cred \in Credentials, id \in PostIds :
    LET r == postDELETE(Store, cred, id)
    IN  /\ Answered(r.store)
        /\ previews' = IF r.store.posts[id] = NoPost
                       THEN [previews EXCEPT ![id] = NoPreview] ELSE previews
        /\ ev' = AEvent("delete", cred, r.status)
        /\ UNCHANGED <<issued, revoked>>
        /\ AFrame

AStatus ==
  \E cred \in Credentials, id \in PostIds, action \in Actions :
    LET r == postPOST(Store, cred, id, action)
    IN  /\ Answered(r.store)
        /\ ev' = AEvent(action, cred, r.status)
        /\ UNCHANGED previewVars
        /\ AFrame

AVersions ==
  \E cred \in Credentials, id \in PostIds :
    /\ ev' = AEvent("listVersions", cred, versionsGET(Store, id).status)
    /\ Counted
    /\ UNCHANGED <<storeVars, created, previewVars>>
    /\ AFrame

ARestore ==
  \E cred \in Credentials, id \in PostIds :
    \E vid \in VersionIds(Store, id) \cup {Null} :
      LET r == POSTrestore(Store, id, vid)
      IN  /\ Answered(r.store)
          /\ ev' = AEvent("restoreVersion", cred, r.status)
          /\ UNCHANGED previewVars
          /\ AFrame

AIssue ==
  \E cred \in Credentials, id \in PostIds :
    LET r == previewPOST(posts, previews, id, generateSecureToken(issued))
    IN  /\ issued < MaxTokens
        /\ issued' = issued + 1
        /\ previews' = r.previews
        /\ ev' = AEvent("issuePreview", cred, r.status)
        /\ Counted
        /\ UNCHANGED <<storeVars, created, revoked>>
        /\ AFrame

APreviewStatus ==
  \E cred \in Credentials, id \in PostIds :
    /\ ev' = AEvent("readPreview", cred, previewGET(posts, previews, id).status)
    /\ Counted
    /\ UNCHANGED <<storeVars, created, previewVars>>
    /\ AFrame

ARevoke ==
  \E cred \in Credentials, id \in PostIds :
    LET r == previewDELETE(posts, previews, id)
        old == IF previews[id] # NoPreview /\ previews[id].token # Null
               THEN {previews[id].token} ELSE {}
    IN  /\ previews' = r.previews
        /\ revoked' = IF r.status = 200 THEN revoked \cup old ELSE revoked
        /\ ev' = AEvent("revokePreview", cred, r.status)
        /\ Counted
        /\ UNCHANGED <<storeVars, created, issued>>
        /\ AFrame

NextAdmin ==
  \/ ACreate
  \/ AGet
  \/ APatch
  \/ ADelete
  \/ AStatus
  \/ AVersions
  \/ ARestore
  \/ AIssue
  \/ APreviewStatus
  \/ ARevoke

SpecAdmin == InitAdmin /\ [][NextAdmin]_vars

\* C17: a request to any admin route (create, read, update, delete, publish,
\* unpublish, toggle, list versions, restore a version, issue, read or
\* revoke the preview token) whose credential is not the admin's is answered
\* 401 and leaves the posts, their versions and their preview tokens as
\* they were.
C17_AdminOperationsNeedAdmin ==
  [][ev'.cred # "admin"
     => (ev'.status = 401 /\ UNCHANGED <<posts, versions, previews>>)]_vars

\* The same for the routes of the post itself, which call verifyAuth
C17_PostRoutesNeedAdmin ==
  [][(/\ ev'.cred # "admin"
      /\ ev'.op \in {"create", "read", "update", "delete"} \cup Actions)
     => (ev'.status = 401 /\ UNCHANGED <<posts, versions, previews>>)]_vars

------------------------------------------------------------------------------
(* The editor after a version restore and after a failed save *)

\* The step starts a performSave call
StartsCall ==
  \E q \in BagToSet(procs') :
    q.phase = "token" /\ CopiesIn(q, procs') > CopiesIn(q, procs)

\* C16: when handleVersionRestore has loaded a version into the draft, the
\* restored content is not persisted until the user saves explicitly: the
\* restore leaves no debounced autosave pending, leaves the last-saved
\* snapshot as it was, leaves the state unsaved and starts no save, and until
\* the next manual save or edit no autosave fires for the restored draft.
C16_RestoreNeedsExplicitSave ==
  [][/\ ev'.op = "versionRestore"
        => /\ debounce' = Off
           /\ lastSavedData' = lastSavedData
           /\ saveState'.status = "unsaved"
           /\ procs' = procs
     /\ (restored /\ ev'.op = "autoSave")
        => (procs' = procs /\ pendingSave' = pendingSave)]_vars

\* C18: when a save's response is 401 or 403 the auth-error callback is
\* invoked, whether or not the save has been superseded by a later one, and
\* the state becomes error when it has not been superseded.
C18_AuthErrorAlwaysSignalled ==
  [][\A p \in BagToSet(procs) :
       (Completes(p) /\ p.resp \in {401, 403})
       => /\ ev'.signal = "onAuthError"
          /\ p.id = saveId => saveState'.status = "error"]_vars

\* C19: the completion of a save whose sequence number is not the latest
\* changes none of the save state, the last-saved snapshot, the in-flight
\* flag, the pending flag and the current post identity.
C19_StaleCompletionChangesNothing ==
  [][\A p \in BagToSet(procs) :
       (Completes(p) /\ p.id # saveId)
       => UNCHANGED <<saveState, lastSavedData, isSaving, pendingSave,
                      currentPostId>>]_vars

\* A response that is a failure other than an authentication failure
NonAuthFailure(resp) ==
  resp = NetErr \/ (~ResponseOk(resp) /\ resp \notin {401, 403})

\* C20: when the latest save fails for a reason other than authentication
\* the state becomes error with a message, and from then until the user
\* edits, saves or restores, no follow-up timer starts another save.
C20_NoAutoRetry ==
  [][/\ \A p \in BagToSet(procs) :
          (Completes(p) /\ p.id = saveId /\ NonAuthFailure(p.resp))
          => (saveState'.status = "error" /\ saveState'.message # "")
     /\ (ev'.op = "followUp" /\ ~userActed) => ~StartsCall]_vars

------------------------------------------------------------------------------
(* An editing session of a new post, with the status buttons of the posts list *)

MaxStatusOps == 1    \* publish / unpublish / toggle requests in one session

\* The admin presses publish, unpublish or toggle for the post of this
\* session in the posts list: POST /api/admin/posts/[id] with the admin's
\* token.  The list is used while no save call of the editor is under way.
StatusRequest ==
  \E id \in PostIds \cap {currentPostId}, action \in Actions :
    LET r == postPOST(Store, "admin", id, action)
    IN  /\ opsDone < MaxStatusOps
        /\ procs = EmptyBag
        /\ opsDone' = opsDone + 1
        /\ SetStore(r.store)
        /\ ev' = Event(action, FALSE)
        /\ UNCHANGED <<renames, editorVars, previewVars>>

NextSession ==
  \/ NextEditor
  \/ StatusRequest

SpecSession == InitNewPost /\ [][NextSession]_vars

\* The calls of performSave the step starts
Started == {q \in BagToSet(procs') :
              q.phase = "token" /\ CopiesIn(q, procs') > CopiesIn(q, procs)}

------------------------------------------------------------------------------
(* The version log when createVersion can stop between its two round-trips *)

MaxCrashes == 2      \* createVersion calls that stop before the eviction

\* createVersion(postId, note) up to versionsRef.add: the snapshot is
\* appended and nothing is evicted
appendVersion(s, postId, note) ==
  IF ~Exists(s, postId) THEN [store |-> s, success |-> FALSE]
  ELSE
    LET t == s.now + 1
    IN  [store |-> [s EXCEPT !.versions[postId] =
                                 @ \cup {versionData(s.posts[postId], t, note)},
                             !.created[postId] = @ \cup {t},
                             !.now = t],
         success |-> FALSE]

KEvent(op, post, ok, excess) ==
  [op |-> op, post |-> post, ok |-> ok, excess |-> excess]

\* the versions of post id beyond MAX_VERSIONS
Excess(id) ==
  IF Cardinality(versions[id]) > MAX_VERSIONS
  THEN Cardinality(versions[id]) - MAX_VERSIONS ELSE 0

KCreateVersion ==
  /\ now < MaxCreates + MaxCrashes
  /\ \E id \in PostIds, note \in Notes :
       LET r == createVersion(Store, id, note)
       IN  /\ SetStore(r.store)
           /\ ev' = KEvent("createVersion", id, r.success, Excess(id))
  /\ UNCHANGED <<renames, opsDone, editorVars, previewVars>>

\* The server process dies after the add and before the batch delete
KCrash ==
  /\ now < MaxCreates + MaxCrashes
  /\ opsDone < MaxCrashes
  /\ \E id \in PostIds, note \in Notes :
       LET r == appendVersion(Store, id, note)
       IN  /\ Exists(Store, id)
           /\ SetStore(r.store)
           /\ ev' = KEvent("crash", id, r.success, Excess(id))
  /\ opsDone' = opsDone + 1
  /\ UNCHANGED <<renames, editorVars, previewVars>>

\* updatePost changing the title between two snapshots
KUpdatePost ==
  \E id \in PostIds, title \in {"t2"} :
    LET r == updatePost(Store, id,
               [title |-> title, slug |-> UndefSlug, excerpt |-> Undef,
                content |-> Undef, status |-> Undef])
    IN  /\ r.store # Store
        /\ SetStore(r.store)
        /\ ev' = KEvent("updatePost", id, r.success, Excess(id))
        /\ UNCHANGED <<renames, opsDone, editorVars, previewVars>>

NextCrash ==
  \/ VCreatePost
  \/ KCreateVersion
  \/ KCrash
  \/ KUpdatePost

SpecCrash == InitStore /\ [][NextCrash]_vars

\* C22: a createVersion call that completes successfully leaves the post
\* with at most 20 versions, the newest by creation time of all that were
\* ever appended, also when calls that stopped after the append had left it
\* with more than 20, whatever the excess.
C22_EvictionSelfCorrects ==
  [][(ev'.op = "createVersion" /\ ev'.ok)
     => LET id == ev'.post
        IN  /\ Cardinality(versions'[id])
                 = Min(Cardinality(created'[id]), MAX_VERSIONS)
            /\ {v.createdAt : v \in versions'[id]}
                 = NewestStamps(created'[id], MAX_VERSIONS)]_vars

\* A createVersion has completed on a post that had 22 versions
C22_Witness ==
  /\ ev.op = "createVersion"
  /\ ev.ok
  /\ ev.excess = MaxCrashes
  /\ Cardinality(versions[ev.post]) = MAX_VERSIONS
  /\ Cardinality(created[ev.post]) = MAX_VERSIONS + MaxCrashes + 1

------------------------------------------------------------------------------
(* Ownership of versions, and slug changes *)

\* C23: every version in the store belongs to a post that exists: once a
\* post has been deleted none of its versions remain.
C23_VersionsDieWithPost ==
  \A id \in PostIds : posts[id] = NoPost => versions[id] = {}

\* The edges of the save state machine
SaveStateEdges ==
  {<<"idle", "unsaved">>, <<"unsaved", "saving">>, <<"saving", "saved">>,
   <<"saving", "error">>, <<"saved", "unsaved">>, <<"error", "unsaved">>,
   <<"error", "saving">>}

\* C24: the save state changes only along the edges idle -> unsaved,
\* unsaved -> saving, saving -> saved, saving -> error, saved -> unsaved,
\* error -> unsaved and error -> saving; into unsaved only by a change of the
\* draft that leaves it different from the snapshot, into saving only by a
\* dispatch, and out of saving only by a completion.
C24_SaveStateEdges ==
  [][saveState'.status # saveState.status
     => /\ <<saveState.status, saveState'.status>> \in SaveStateEdges
        /\ saveState'.status = "unsaved"
           => (ev'.op \in {"edit", "versionRestore"}
               /\ isDirty(draft', lastSavedData'))
        /\ saveState'.status = "saving" => ev'.op = "dispatch"
        /\ saveState.status = "saving" => ev'.op = "complete"]_vars

MaxSlugOps == 5      \* store operations in one run of SpecSlugs

UEvent(op, post, slug, ok) == [op |-> op, post |-> post, slug |-> slug, ok |-> ok]

InitSlugs == NoPosts /\ ev = UEvent("init", Null, UndefSlug, TRUE)

\* One more store operation is performed
UCounted ==
  /\ opsDone < MaxSlugOps
  /\ opsDone' = opsDone + 1
  /\ UNCHANGED <<renames, editorVars, previewVars>>

UCreatePost ==
  \E id \in PostIds \ usedIds, slug \in RawSlugs :
    LET r == createPost(Store, id,
               [title |-> "t1", slug |-> slug, excerpt |-> "",
                content |-> "c1", status |-> "published"])
    IN  /\ UCounted
        /\ SetStore(r.store)
        /\ ev' = UEvent("createPost", id, slug, r.success)

UUpdatePost ==
  \E id \in PostIds, slug \in RawSlugs \cup {UndefSlug} :
    LET r == updatePost(Store, id,
               [title |-> "t2", slug |-> slug, excerpt |-> Undef,
                content |-> Undef, status |-> Undef])
    IN  /\ UCounted
        /\ SetStore(r.store)
        /\ ev' = UEvent("updatePost", id, slug, r.success)

UCreateVersion ==
  \E id \in PostIds :
    LET r == createVersion(Store, id, "Manual save")
    IN  /\ UCounted
        /\ SetStore(r.store)
        /\ ev' = UEvent("createVersion", id, UndefSlug, r.success)

URestoreVersion ==
  \E id \in PostIds : \E vid \in VersionIds(Store, id) \cup {now + 1} :
    LET r == restoreVersion(Store, id, vid)
    IN  /\ UCounted
        /\ SetStore(r.store)
        /\ ev' = UEvent("restoreVersion", id, UndefSlug, r.success)

NextSlugs ==
  \/ UCreatePost
  \/ UUpdatePost
  \/ UCreateVersion
  \/ URestoreVersion

SpecSlugs == InitSlugs /\ [][NextSlugs]_vars

NoDuplicates(seq) ==
  \A i, j \in 1..Len(seq) : seq[i] = seq[j] => i = j

\* The slug of the update is the live slug of a post other than id
TakenByOther(id, slug) ==
  \E j \in PostIds \ {id} : posts[j] # NoPost /\ posts[j].slug = slug

C29_FormerSlugRetired ==
  [][\A id \in PostIds :
       (posts[id] # NoPost /\ posts'[id] # NoPost
        /\ posts'[id].slug # posts[id].slug)
       => /\ Contains(posts'[id].oldSlugs, posts[id].slug)
          /\ (/\ posts'[id].status = "published"
              /\ \A j \in PostIds \ {id} :
                    posts'[j] # NoPost
                    => /\ posts'[j].slug # posts[id].slug
                       /\ ~Contains(posts'[j].oldSlugs, posts[id].slug))
             => LET r == resolvePost([posts |-> posts'], posts[id].slug)
                IN  /\ r.post = id
                    /\ r.shouldRedirect
                    /\ r.redirectSlug = posts'[id].slug]_vars

\* C28: a PATCH that is answered with a failure, createVersion set or not,
\* leaves every post and every version log as it was.
C28_FailedPatchWritesNothing ==
  [][(ev'.op = "update" /\ ev'.status # 200)
     => (posts' = posts /\ versions' = versions)]_vars

\* What the form holds when the user clears the title, the content or both
ClearedDrafts ==
  {[InitialData EXCEPT !.title = t, !.content = c] :
     t \in {InitialData.title, ""}, c \in {InitialData.content, ""}}

\* The user clears or refills the title or the content; the field-change
\* effect runs handleChange
ClearField ==
  \E d \in ClearedDrafts :
    LET h == handleChange(isDirty(d, lastSavedData), saveState, debounce)
    IN  /\ d # draft
        /\ draft' = d
        /\ saveState' = h.saveState
        /\ debounce' = h.debounce
        /\ sinceEdit' = 0
        /\ sinceDirtyEdit' = IF isDirty(d, lastSavedData) THEN 0 ELSE sinceDirtyEdit
        /\ ev' = Event("edit", FALSE)
        /\ restored' = FALSE
        /\ userActed' = TRUE
        /\ UNCHANGED <<storeVars, lastSavedData, currentPostId, isSaving,
                       pendingSave, saveId, procs, queuedCalls, okId,
                       created, renames, opsDone, previewVars>>

\* The user clears fields and presses Save, faster than any timer
NextManualSaves ==
  \/ ClearField
  \/ handleManualSave
  \/ TokenResolved
  \/ ServerHandle
  \/ Complete

SpecManualSaves == InitEditor /\ [][NextManualSaves]_vars

\* C27: when a save of an existing post that is still the latest one
\* completes successfully, the stored post has the title, excerpt, content
\* and status of the last-saved snapshot, the draft that was sent.
C27_StoreEqualsSnapshot ==
  [][\A p \in BagToSet(procs) :
       (/\ Completes(p)
        /\ p.id = saveId
        /\ p.post # Null
        /\ saveState'.status = "saved")
       => /\ lastSavedData' = p.data
          /\ posts'[p.post] # NoPost
          /\ posts'[p.post].title = lastSavedData'.title
          /\ posts'[p.post].excerpt = lastSavedData'.excerpt
          /\ posts'[p.post].content = lastSavedData'.content
          /\ posts'[p.post].status = lastSavedData'.status]_vars

------------------------------------------------------------------------------
(* A session on the new-post page in which the user also retypes the slug *)

\* What the form of a new post holds while the user types
TypedDrafts ==
  {PostData("t1", slug, "", "c1", "draft") : slug \in {<<"a">>, <<"b">>}}

\* The user types into the form; the field-change effect runs handleChange
TypeFields ==
  \E d \in TypedDrafts :
    LET h == handleChange(isDirty(d, lastSavedData), saveState, debounce)
    IN  /\ d # draft
        /\ draft' = d
        /\ saveState' = h.saveState
        /\ debounce' = h.debounce
        /\ sinceEdit' = 0
        /\ sinceDirtyEdit' = IF isDirty(d, lastSavedData) THEN 0 ELSE sinceDirtyEdit
        /\ ev' = Event("edit", FALSE)
        /\ restored' = FALSE
        /\ userActed' = TRUE
        /\ UNCHANGED <<storeVars, lastSavedData, currentPostId, isSaving,
                       pendingSave, saveId, procs, queuedCalls, okId,
                       created, renames, opsDone, previewVars>>

NextTyping ==
  \/ TypeFields
  \/ AutoSave
  \/ handleManualSave
  \/ TokenResolved
  \/ ServerHandle
  \/ Complete
  \/ FollowUp
  \/ Tick

SpecTyping == InitNewPost /\ [][NextTyping]_vars

\* C30: one editing session that starts on the new-post page creates at most
\* one post, and once the editor knows the identity of its post that post is
\* the only one the session has created.
C30_OnePostPerSession ==
  /\ Cardinality(usedIds) <= 1
  /\ currentPostId # Null => usedIds = {currentPostId}

------------------------------------------------------------------------------
\* Settling after the last edit: the edit page of an existing post where the
\* user only types, getToken always yields a token and every request is
\* authorized and answered.  Timers, promises and responses are not held
\* back for ever; the user is under no obligation to do anything.  Of the
\* steps of ServerHandle the next-state relation admits the authorized ones,
\* so those are the steps its fairness condition asks for.

\* getToken resolves with a token
TokenGranted == TokenResolved /\ ev'.op = "dispatch"

\* The API handles a save request that carries a valid admin token
ServedAuthorized ==
  ServerHandle /\ \A q \in BagToSet(procs') : q.phase = "response" => q.resp # 401

NextSettling ==
  \/ Edit
  \/ AutoSave
  \/ TokenGranted
  \/ ServedAuthorized
  \/ Complete
  \/ FollowUp
  \/ Tick

SpecSettling ==
  /\ InitEditor
  /\ [][NextSettling]_vars
  /\ WF_vars(AutoSave)
  /\ WF_vars(TokenGranted)
  /\ WF_vars(ServerHandle)
  /\ WF_vars(Complete)
  /\ WF_vars(FollowUp)
  /\ WF_vars(Tick)

\* C26: once the user stops editing, with every save succeeding, the draft
\* comes to equal the last-saved snapshot: either the user edits again and
\* again, or the run leaves the saves this model counts, or the draft is
\* clean again and again.
C26_EditEventuallySaved ==
  \/ []<>(ev.op = "edit")
  \/ <>(saveId = MaxSaveId)
  \/ []<>(~isDirty(draft, lastSavedData))

====
